---- MODULE Spec2Model ----
(***************************************************************************)
(* Model of the tauri-bindgen-ts `command` attribute macro                 *)
(* (tauri-bindgen-ts-macro/src/lib.rs).                                    *)
(*                                                                         *)
(* Every annotated function goes through three stages:                     *)
(*   1. macro expansion: parse_dir_arg, func_metadata / types and          *)
(*      generate_test run inside the compiler and either panic or leave a  *)
(*      generated #[test] function behind;                                 *)
(*   2. type checking of the generated test by rustc;                      *)
(*   3. `cargo test`: the generated test computes the parameter list,      *)
(*      creates the output directory and writes the binding file.          *)
(* Generated tests of different functions run as concurrent threads of the *)
(* test harness, so their filesystem steps interleave.                     *)
(*                                                                         *)
(* Text is modelled as a sequence of one-character strings, so that        *)
(* trimming, joining and placeholder replacement work on characters as     *)
(* they do in the program.                                                 *)
(***************************************************************************)
EXTENDS Integers, Sequences, FiniteSets, TLC

VARIABLES
    funcs,      \* the annotated source functions: name, inputs, attribute argument
    pc,         \* stage of every function's pipeline
    test,       \* the generated test of every function (NoTest before expansion)
    args,       \* the local `args` of a running test (line 111)
    err,        \* panic / compiler message of an aborted or failed pipeline
    injected,   \* the environment made a filesystem call of the current run fail
    edited,     \* the function's output file was edited by hand at some time
    overlapped, \* some run created its directory while another run was in flight
    dirs,       \* directories that exist
    files       \* path -> content of the files that exist

vars == <<funcs, pc, test, args, err, injected, edited, overlapped, dirs, files>>

-----------------------------------------------------------------------------
(* Bounds of the model.                                                    *)

MaxParams == 2
MaxAttrLen == 3

-----------------------------------------------------------------------------
(* Text primitives of the Rust standard library used by the program.       *)

\* [a, b, ...].join(sep)
RECURSIVE join(_, _)
join(strs, sep) ==
    IF Len(strs) = 0 THEN <<>>
    ELSE IF Len(strs) = 1 THEN strs[1]
    ELSE strs[1] \o sep \o join(Tail(strs), sep)

\* `from` occurs in s at position i
MatchAt(s, from, i) ==
    /\ i + Len(from) - 1 <= Len(s)
    /\ \A k \in 1..Len(from) : s[i + k - 1] = from[k]

\* str::replace: every non-overlapping occurrence of `from`, left to right
RECURSIVE replace(_, _, _)
replace(s, from, to) ==
    LET hits == {i \in 1..Len(s) : MatchAt(s, from, i)}
    IN  IF hits = {} THEN s
        ELSE LET i == CHOOSE x \in hits : \A y \in hits : x <= y
             IN  SubSeq(s, 1, i - 1) \o to
                   \o replace(SubSeq(s, i + Len(from), Len(s)), from, to)

\* str::trim_matches(|c| c == '"' || c == '\'')
IsQuote(c) == c = "\"" \/ c = "'"

RECURSIVE trim_start_matches(_)
trim_start_matches(s) ==
    IF Len(s) > 0 /\ IsQuote(s[1]) THEN trim_start_matches(Tail(s)) ELSE s

RECURSIVE trim_end_matches(_)
trim_end_matches(s) ==
    IF Len(s) > 0 /\ IsQuote(s[Len(s)])
    THEN trim_end_matches(SubSeq(s, 1, Len(s) - 1)) ELSE s

trim_matches(s) == trim_end_matches(trim_start_matches(s))

-----------------------------------------------------------------------------
(* parse_dir_arg (lines 46-51)                                             *)

DefaultDir == <<".", ".", "/", "s", "r", "c", "-", "g", "e", "n">>

\* variant: only leading quotes are removed
parse_dir_arg_start_only(attr) ==
    LET dir == trim_start_matches(attr)
    IN  IF Len(dir) = 0 THEN DefaultDir ELSE dir

parse_dir_arg(attr) ==
    LET dir == trim_matches(attr)
    IN  IF Len(dir) = 0 THEN DefaultDir ELSE dir

-----------------------------------------------------------------------------
(* The syn syntax tree of a function signature, as far as the macro looks  *)
(* at it: FnArg::Receiver | FnArg::Typed(PatType {pat, ty}),               *)
(* Pat::Ident | other patterns, Type::Path | other types.                  *)

NoPat == [kind |-> "None", ident |-> <<>>]
NoTy == [kind |-> "None", path |-> ""]

PatIdent(n) == [kind |-> "Ident", ident |-> n]
PatTuple == [kind |-> "Tuple", ident |-> <<>>]
TypePath(p) == [kind |-> "Path", path |-> p]
TypeReference == [kind |-> "Reference", path |-> ""]
TypeTuple == [kind |-> "Tuple", path |-> ""]

FnArgReceiver == [kind |-> "Receiver", pat |-> NoPat, ty |-> NoTy]
FnArgTyped(pat, ty) == [kind |-> "Typed", pat |-> pat, ty |-> ty]

Ok(a) == [ok |-> TRUE, msg |-> "", args |-> a]
Panic(m) == [ok |-> FALSE, msg |-> m, args |-> <<>>]

-----------------------------------------------------------------------------
(* types (lines 70-83): every argument must be an identifier pattern with  *)
(* a path type; the first argument that is not makes the macro panic.      *)

IsSimple(arg) == arg.pat.kind = "Ident" /\ arg.ty.kind = "Path"

\* variant: filter_map drops an unsupported argument instead of panicking
types_skip(typed) ==
    LET kept == SelectSeq(typed, IsSimple)
    IN  Ok([i \in 1..Len(kept) |-> <<kept[i].pat.ident, kept[i].ty.path>>])

types(typed) ==
    IF \E i \in 1..Len(typed) : ~IsSimple(typed[i])
    THEN Panic("Only simple owned types are allowed as arguments at the moment!")
    ELSE Ok([i \in 1..Len(typed) |-> <<typed[i].pat.ident, typed[i].ty.path>>])

(* func_metadata (lines 58-68)                                             *)
func_metadata(item) ==
    IF \E i \in 1..Len(item.inputs) : item.inputs[i].kind # "Typed"
    THEN Panic("Only top-level functions are allowed as commands!")
    ELSE LET r == types(item.inputs)
         IN  [ok |-> r.ok, msg |-> r.msg, name |-> item.name, args |-> r.args]

-----------------------------------------------------------------------------
(* generate_test (lines 87-117): the part evaluated at expansion time.     *)

header == <<"/", "/", " ", "T", "h", "i", "s", " ", "f", "i",
            "l", "e", " ", "w", "a", "s", " ", "g", "e", "n",
            "e", "r", "a", "t", "e", "d", " ", "b", "y", " ",
            "[", "t", "a", "u", "r", "i", "-", "b", "i", "n",
            "d", "g", "e", "n", "-", "t", "s", "]", "(", "h",
            "t", "t", "p", "s", ":", "/", "/", "g", "i", "t",
            "h", "u", "b", ".", "c", "o", "m", "/", "a", "n",
            "t", "o", "n", "i", "u", "s", "n", "a", "u", "m",
            "a", "n", "n", "/", "t", "a", "u", "r", "i", "-",
            "b", "i", "n", "d", "g", "e", "n", "-", "t", "s",
            ")", ".", " ", "D", "o", " ", "n", "o", "t", " ",
            "e", "d", "i", "t", " ", "t", "h", "i", "s", " ",
            "f", "i", "l", "e", " ", "m", "a", "n", "u", "a",
            "l", "l", "y", ".">>

import == <<"i", "m", "p", "o", "r", "t", " ", "{", " ", "i",
            "n", "v", "o", "k", "e", " ", "}", " ", "f", "r",
            "o", "m", " ", "\"", "@", "t", "a", "u", "r", "i",
            "-", "a", "p", "p", "s", "/", "a", "p", "i", "/",
            "t", "a", "u", "r", "i", "\"">>

\* variant: the two placeholders change places
binding_swapped(name) ==
    <<"e", "x", "p", "o", "r", "t", " ", "a", "s", "y",
      "n", "c", " ", "f", "u", "n", "c", "t", "i", "o",
      "n", " ">> \o name \o <<"(", "%", "1", ")", " ", "{", " ", "r", "e", "t",
                              "u", "r", "n", " ", "a", "w", "a", "i", "t", " ",
                              "i", "n", "v", "o", "k", "e", "(", "'">>
        \o name \o <<"'", ",", " ", "{", " ", "%", "0", " ", "}", ")", " ", "}">>

\* format!("export async function {name}(%0) {{ return await invoke('{name}', {{ %1 }}) }}")
binding(name) ==
    <<"e", "x", "p", "o", "r", "t", " ", "a", "s", "y",
      "n", "c", " ", "f", "u", "n", "c", "t", "i", "o",
      "n", " ">> \o name \o <<"(", "%", "0", ")", " ", "{", " ", "r", "e", "t",
                              "u", "r", "n", " ", "a", "w", "a", "i", "t", " ",
                              "i", "n", "v", "o", "k", "e", "(", "'">>
        \o name \o <<"'", ",", " ", "{", " ", "%", "1", " ", "}", ")", " ", "}">>

\* variant: one file per directory instead of one per function
file_name_shared(dir, name) == dir \o <<"/">> \o <<"b", "i", "n", "d", "i", "n", "g", "s">> \o <<".", "t", "s">>

\* format!("{dir}/{name}.ts")
file_name(dir, name) == dir \o <<"/">> \o name \o <<".", "t", "s">>

\* format!("{header}\n{import}\n\n{binding}")
content(name) == header \o <<"\n">> \o import \o <<"\n", "\n">> \o binding(name)

generate_test(func, dir) ==
    [ arg_names |-> [i \in 1..Len(func.args) |-> func.args[i][1]],
      arg_types |-> [i \in 1..Len(func.args) |-> func.args[i][2]],
      dir       |-> dir,
      file_name |-> file_name(dir, func.name),
      content   |-> content(func.name) ]

NoTest == [arg_names |-> <<>>, arg_types |-> <<>>, dir |-> <<>>,
           file_name |-> <<>>, content |-> <<>>]

-----------------------------------------------------------------------------
(* The generated test (lines 103-115).                                     *)

\* The types in scope that implement ts_rs::TS, with the result of their
\* name(): String and i32 as ts_rs declares them, and Pct, a user type that
\* declares the TypeScript name "%1".  Raw is a type without a TS impl.
TsImpls == [String |-> <<"s", "t", "r", "i", "n", "g">>, i32 |-> <<"n", "u", "m", "b",
                                                                   "e", "r">>, Pct |-> <<"%", "1">>]
TypePaths == {"String", "i32", "Pct", "Raw"}

ts_name(path) == TsImpls[path]

\* rustc on the generated test.  `#arg_types::name()` needs a TS impl
\* (E0599).  With no arguments lines 109-110 read `vec![]`, nothing fixes
\* the element types of `types` and `names`, and the method calls of line
\* 111 are on values of unknown type (E0282).
rustc(t) ==
    IF \E i \in 1..Len(t.arg_types) : t.arg_types[i] \notin DOMAIN TsImpls
    THEN "error[E0599]: no associated item named name found"
    ELSE IF Len(t.arg_types) = 0
    THEN "error[E0282]: type annotations needed"
    ELSE ""

\* lines 109-111
test_args(t) ==
    join([i \in 1..Len(t.arg_types) |->
              join(<<t.arg_names[i], ts_name(t.arg_types[i])>>, <<":", " ">>)], <<",", " ">>)

\* line 114: #content.replace("%0", args.as_str()).replace("%1", names.join(", ").as_str())
test_output(t, a) ==
    replace(replace(t.content, <<"%", "0">>, a), <<"%", "1">>, join(t.arg_names, <<",", " ">>))

-----------------------------------------------------------------------------
(* std::fs                                                                 *)

\* variant: fs::create_dir, which fails on a directory that exists
create_dir(ds, d, denied) ==
    IF denied \/ d \in ds THEN [ok |-> FALSE, dirs |-> ds]
    ELSE [ok |-> TRUE, dirs |-> ds \cup {d}]

\* fs::create_dir_all: creates the directory unless it exists; an existing
\* directory, also one created concurrently, is a success.
create_dir_all(ds, d, denied) ==
    IF denied THEN [ok |-> FALSE, dirs |-> ds]
    ELSE [ok |-> TRUE, dirs |-> ds \cup {d}]

\* variant: the file is opened without truncation
file_create_keep(fs, ds, t, denied) ==
    IF denied \/ t.dir \notin ds THEN [ok |-> FALSE, files |-> fs]
    ELSE [ok |-> TRUE,
          files |-> [p \in DOMAIN fs \cup {t.file_name} |->
                        IF p \in DOMAIN fs THEN fs[p] ELSE <<>>]]

\* fs::write, first half: File::create opens with create + truncate.
file_create(fs, ds, t, denied) ==
    IF denied \/ t.dir \notin ds THEN [ok |-> FALSE, files |-> fs]
    ELSE [ok |-> TRUE,
          files |-> [p \in DOMAIN fs \cup {t.file_name} |->
                        IF p = t.file_name THEN <<>> ELSE fs[p]]]

\* the bytes of a file after writing `data` at offset 0 over `old`
overwrite(old, data) ==
    data \o SubSeq(old, Len(data) + 1, Len(old))

\* fs::write, second half: write_all; a failing write leaves a prefix.
write_all(fs, t, data, denied) ==
    [ok |-> ~denied,
     files |-> [fs EXCEPT ![t.file_name] =
                   overwrite(@, IF denied THEN SubSeq(data, 1, Len(data) \div 2)
                                ELSE data)]]

\* variant: the result is dropped instead of unwrapped
expect_ignored(res, next) == next

\* Result::expect: the stage after a filesystem call
expect(res, next) == IF res.ok THEN next ELSE "failed"

-----------------------------------------------------------------------------
(* Actions                                                                 *)

Fns == DOMAIN funcs

\* stages of a test between its start and its end
InFlight == {"mkdir", "write", "writing"}

\* command (lines 29-42): macro expansion of one annotated function
command(p) ==
    /\ pc[p] = "source"
    /\ LET dir == parse_dir_arg(funcs[p].attr)
           func == IF funcs[p].item = "fn" THEN func_metadata(funcs[p])
                   ELSE Panic("This attribute should be used on a function!")
       IN  IF func.ok
           THEN /\ test' = [test EXCEPT ![p] = generate_test(func, dir)]
                /\ pc' = [pc EXCEPT ![p] = "expanded"]
                /\ err' = err
           ELSE /\ test' = test
                /\ pc' = [pc EXCEPT ![p] = "aborted"]
                /\ err' = [err EXCEPT ![p] = func.msg]
    /\ UNCHANGED <<funcs, args, injected, edited, overlapped, dirs, files>>

\* compilation of the generated test (lines 103-115)
Compile(p) ==
    /\ pc[p] = "expanded"
    /\ pc' = [pc EXCEPT ![p] = IF rustc(test[p]) = "" THEN "ready" ELSE "aborted"]
    /\ err' = [err EXCEPT ![p] = rustc(test[p])]
    /\ UNCHANGED <<funcs, test, args, injected, edited, overlapped, dirs, files>>

\* cargo test starts the generated test: lines 109-111
RunTest(p) ==
    /\ pc[p] = "ready"
    /\ args' = [args EXCEPT ![p] = test_args(test[p])]
    /\ pc' = [pc EXCEPT ![p] = "mkdir"]
    /\ injected' = [injected EXCEPT ![p] = FALSE]
    /\ err' = [err EXCEPT ![p] = ""]
    /\ UNCHANGED <<funcs, test, edited, overlapped, dirs, files>>

\* line 113
CreateDir(p) ==
    /\ pc[p] = "mkdir"
    /\ \E denied \in BOOLEAN :
         LET res == create_dir_all(dirs, test[p].dir, denied)
         IN  /\ dirs' = res.dirs
             /\ pc' = [pc EXCEPT ![p] = expect(res, "write")]
             /\ err' = [err EXCEPT ![p] =
                          IF res.ok THEN "" ELSE "Could not create directory"]
             /\ injected' = [injected EXCEPT ![p] = denied]
    /\ overlapped' = (overlapped \/ \E q \in Fns \ {p} : pc[q] \in InFlight)
    /\ UNCHANGED <<funcs, test, args, edited, files>>

\* line 114, fs::write opening the file
WriteOpen(p) ==
    /\ pc[p] = "write"
    /\ \E denied \in BOOLEAN :
         LET res == file_create(files, dirs, test[p], denied)
         IN  /\ files' = res.files
             /\ pc' = [pc EXCEPT ![p] = expect(res, "writing")]
             /\ err' = [err EXCEPT ![p] =
                          IF res.ok THEN ""
                          ELSE "Could not write generated function binding to file"]
             /\ injected' = [injected EXCEPT ![p] = denied]
    /\ UNCHANGED <<funcs, test, args, edited, overlapped, dirs>>

\* line 114, fs::write writing the content
WriteAll(p) ==
    /\ pc[p] = "writing"
    /\ \E denied \in BOOLEAN :
         LET res == write_all(files, test[p], test_output(test[p], args[p]), denied)
         IN  /\ files' = res.files
             /\ pc' = [pc EXCEPT ![p] = expect(res, "passed")]
             /\ err' = [err EXCEPT ![p] =
                          IF res.ok THEN ""
                          ELSE "Could not write generated function binding to file"]
             /\ injected' = [injected EXCEPT ![p] = denied]
    /\ UNCHANGED <<funcs, test, args, edited, overlapped, dirs>>

\* cargo test is run again
Rerun(p) ==
    /\ pc[p] \in {"passed", "failed"}
    /\ pc' = [pc EXCEPT ![p] = "ready"]
    /\ UNCHANGED <<funcs, test, args, err, injected, edited, overlapped, dirs, files>>

\* between two runs somebody edits the generated file: appends to the
\* generated text or replaces it
HandEdits(t) == {test_output(t, test_args(t)) \o <<"\n", "/", "/", " ", "e",
                                                   "d", "i", "t", "e", "d">>, <<"/", "/", " ", "e",
                                                                                "d", "i", "t", "e",
                                                                                "d">>}

HandEdit(p) ==
    /\ pc[p] = "ready"
    /\ test[p].file_name \in DOMAIN files
    /\ \E e \in HandEdits(test[p]) :
         /\ files[test[p].file_name] # e
         /\ files' = [files EXCEPT ![test[p].file_name] = e]
    /\ edited' = [edited EXCEPT ![p] = TRUE]
    /\ UNCHANGED <<funcs, pc, test, args, err, injected, overlapped, dirs>>

Next ==
    \E p \in Fns :
        \/ command(p)
        \/ Compile(p)
        \/ RunTest(p)
        \/ CreateDir(p)
        \/ WriteOpen(p)
        \/ WriteAll(p)
        \/ Rerun(p)
        \/ HandEdit(p)

-----------------------------------------------------------------------------
(* Inputs and initial states                                               *)

ItemFn(name, inputs, attr) ==
    [item |-> "fn", name |-> name, inputs |-> inputs, attr |-> attr]

\* an item that is no function, which syn::parse::<ItemFn> rejects (line 30)
ItemStruct(name, attr) ==
    [item |-> "struct", name |-> name, inputs |-> <<>>, attr |-> attr]

InitWith(fs) ==
    /\ funcs = fs
    /\ pc = [p \in DOMAIN fs |-> "source"]
    /\ test = [p \in DOMAIN fs |-> NoTest]
    /\ args = [p \in DOMAIN fs |-> <<>>]
    /\ err = [p \in DOMAIN fs |-> ""]
    /\ injected = [p \in DOMAIN fs |-> FALSE]
    /\ edited = [p \in DOMAIN fs |-> FALSE]
    /\ overlapped = FALSE
    /\ dirs = {}
    /\ files = <<>>

Greet == ItemFn(<<"g", "r", "e", "e", "t">>, <<FnArgTyped(PatIdent(<<"n", "a", "m", "e">>), TypePath("String"))>>, <<>>)

\* Two commands of one crate, with distinct names, whose tests run
\* concurrently.
ConcurrentInputs ==
    { << ItemFn(<<"g", "r", "e", "e", "t">>, <<FnArgTyped(PatIdent(<<"n", "a", "m", "e">>), TypePath("String"))>>, a1),
         ItemFn(<<"a", "d", "d">>, i2, a2) >> :
        a1 \in {<<>>, <<"\"", ".", "/", "c", "u", "s", "t", "o", "m", "\"">>},
        a2 \in {<<>>, <<"\"", ".", "/", "c", "u", "s", "t", "o", "m", "\"">>},
        i2 \in { <<FnArgTyped(PatIdent(<<"a">>), TypePath("i32")),
                   FnArgTyped(PatIdent(<<"b">>), TypePath("i32"))>>,
                 <<FnArgTyped(PatIdent(<<"a">>), TypeReference)>> } }

Init == \E fs \in ConcurrentInputs : InitWith(fs)

Spec == Init /\ [][Next]_vars

\* One command with any signature of up to MaxParams parameters.
ParamNames == {<<"a">>, <<"b">>, <<"n", "a", "m", "e">>}
Pats == {PatIdent(n) : n \in ParamNames} \cup {PatTuple}
Tys == {TypePath(t) : t \in TypePaths} \cup {TypeReference, TypeTuple}
FnArgs == {FnArgReceiver} \cup {FnArgTyped(p, t) : p \in Pats, t \in Tys}

\* rustc accepts a receiver only as the first input and no identifier twice
Signatures ==
    { s \in UNION {[1..n -> FnArgs] : n \in 0..MaxParams} :
        /\ \A i \in 2..Len(s) : s[i].kind # "Receiver"
        /\ \A i, j \in 1..Len(s) :
              (i # j /\ s[i].pat.kind = "Ident" /\ s[j].pat.kind = "Ident")
                  => s[i].pat.ident # s[j].pat.ident }

GenInputs ==
    { <<ItemFn(n, s, <<>>)>> : n \in {<<"g", "r", "e", "e", "t">>, <<"f">>}, s \in Signatures }
        \cup { <<ItemStruct(<<"f">>, <<>>)>> }

InitGen == \E fs \in GenInputs : InitWith(fs)

SpecGen == InitGen /\ [][Next]_vars

\* One command with any attribute argument of up to MaxAttrLen characters.
AttrChars == {"\"", "'", ".", "/", "c"}
Attrs ==
    UNION {[1..n -> AttrChars] : n \in 0..MaxAttrLen}
        \cup {<<"\"", ".", "/", "c", "u", "s", "t", "o", "m", "\"">>, <<"'", ".", "/", "c",
                                                                        "u", "s", "t", "o",
                                                                        "m", "'">>, <<".", "/", "c", "u",
                                                                                      "s", "t", "o", "m">>}

DirInputs == { <<ItemFn(<<"g", "r", "e", "e", "t">>, Greet.inputs, a)>> : a \in Attrs }

InitDir == \E fs \in DirInputs : InitWith(fs)

SpecDir == InitDir /\ [][Next]_vars

-----------------------------------------------------------------------------
(* What the specification expects, written out independently of the model. *)

\* header line, import line and blank line of every function file
ExpectedHead == <<"/", "/", " ", "T", "h", "i", "s", " ", "f", "i",
                  "l", "e", " ", "w", "a", "s", " ", "g", "e", "n",
                  "e", "r", "a", "t", "e", "d", " ", "b", "y", " ",
                  "[", "t", "a", "u", "r", "i", "-", "b", "i", "n",
                  "d", "g", "e", "n", "-", "t", "s", "]", "(", "h",
                  "t", "t", "p", "s", ":", "/", "/", "g", "i", "t",
                  "h", "u", "b", ".", "c", "o", "m", "/", "a", "n",
                  "t", "o", "n", "i", "u", "s", "n", "a", "u", "m",
                  "a", "n", "n", "/", "t", "a", "u", "r", "i", "-",
                  "b", "i", "n", "d", "g", "e", "n", "-", "t", "s",
                  ")", ".", " ", "D", "o", " ", "n", "o", "t", " ",
                  "e", "d", "i", "t", " ", "t", "h", "i", "s", " ",
                  "f", "i", "l", "e", " ", "m", "a", "n", "u", "a",
                  "l", "l", "y", ".", "\n", "i", "m", "p", "o", "r",
                  "t", " ", "{", " ", "i", "n", "v", "o", "k", "e",
                  " ", "}", " ", "f", "r", "o", "m", " ", "\"", "@",
                  "t", "a", "u", "r", "i", "-", "a", "p", "p", "s",
                  "/", "a", "p", "i", "/", "t", "a", "u", "r", "i",
                  "\"", "\n", "\n">>

GreetText == ExpectedHead \o <<"e", "x", "p", "o", "r", "t", " ", "a", "s",
                               "y", "n", "c", " ", "f", "u", "n", "c", "t",
                               "i", "o", "n", " ", "g", "r", "e", "e", "t",
                               "(", "n", "a", "m", "e", ":", " ", "s", "t",
                               "r", "i", "n", "g", ")", " ", "{", " ", "r",
                               "e", "t", "u", "r", "n", " ", "a", "w", "a",
                               "i", "t", " ", "i", "n", "v", "o", "k", "e",
                               "(", "'", "g", "r", "e", "e", "t", "'", ",",
                               " ", "{", " ", "n", "a", "m", "e", " ", "}",
                               ")", " ", "}">>

GreetTextSemicolon == ExpectedHead \o <<"e", "x", "p", "o", "r", "t", " ", "a",
                                        "s", "y", "n", "c", " ", "f", "u", "n",
                                        "c", "t", "i", "o", "n", " ", "g", "r",
                                        "e", "e", "t", "(", "n", "a", "m", "e",
                                        ":", " ", "s", "t", "r", "i", "n", "g",
                                        ")", " ", "{", " ", "r", "e", "t", "u",
                                        "r", "n", " ", "a", "w", "a", "i", "t",
                                        " ", "i", "n", "v", "o", "k", "e", "(",
                                        "'", "g", "r", "e", "e", "t", "'", ",",
                                        " ", "{", " ", "n", "a", "m", "e", " ",
                                        "}", ")", ";", " ", "}">>

AddText == ExpectedHead \o <<"e", "x", "p", "o", "r", "t", " ", "a", "s", "y",
                             "n", "c", " ", "f", "u", "n", "c", "t", "i", "o",
                             "n", " ", "a", "d", "d", "(", "a", ":", " ", "n",
                             "u", "m", "b", "e", "r", ",", " ", "b", ":", " ",
                             "n", "u", "m", "b", "e", "r", ")", " ", "{", " ",
                             "r", "e", "t", "u", "r", "n", " ", "a", "w", "a",
                             "i", "t", " ", "i", "n", "v", "o", "k", "e", "(",
                             "'", "a", "d", "d", "'", ",", " ", "{", " ", "a",
                             ",", " ", "b", " ", "}", ")", " ", "}">>

\* the content a run of function p alone produces (functions of Spec)
AloneText(p) == IF funcs[p].name = <<"g", "r", "e", "e", "t">> THEN GreetText ELSE AddText

\* the directory and the file the specification names for function p
\* (attribute arguments of Spec and SpecGen)
NamedDir(p) == IF funcs[p].attr = <<>> THEN <<".", ".", "/", "s", "r", "c", "-", "g", "e", "n">> ELSE <<".", "/", "c", "u",
                                                                                                        "s", "t", "o", "m">>
NamedFile(p) == NamedDir(p) \o <<"/">> \o funcs[p].name \o <<".", "t", "s">>

\* `p1: T1, p2: T2, ...` and `p1, p2, ...` from the declared signature
DeclaredParams(p) ==
    join([i \in 1..Len(funcs[p].inputs) |->
             funcs[p].inputs[i].pat.ident \o <<":", " ">>
                 \o TsImpls[funcs[p].inputs[i].ty.path]], <<",", " ">>)

DeclaredNames(p) ==
    join([i \in 1..Len(funcs[p].inputs) |-> funcs[p].inputs[i].pat.ident], <<",", " ">>)

\* the function file with its two slots filled independently
Filled(n, P, A, tail) ==
    ExpectedHead \o <<"e", "x", "p", "o", "r", "t", " ", "a", "s", "y",
                      "n", "c", " ", "f", "u", "n", "c", "t", "i", "o",
                      "n", " ">> \o n \o <<"(">> \o P
        \o <<")", " ", "{", " ", "r", "e", "t", "u", "r", "n",
             " ", "a", "w", "a", "i", "t", " ", "i", "n", "v",
             "o", "k", "e", "(", "'">> \o n \o <<"'", ",", " ", "{", " ">> \o A \o tail

FileOf(path) == IF path \in DOMAIN files THEN files[path] ELSE <<"absent">>

\* a signature the macro or the compiler rejects (C6)
Unsupported(item) ==
    \E i \in 1..Len(item.inputs) :
        \/ item.inputs[i].kind # "Typed"
        \/ item.inputs[i].pat.kind # "Ident"
        \/ item.inputs[i].ty.kind # "Path"
        \/ item.inputs[i].ty.path \notin DOMAIN TsImpls

-----------------------------------------------------------------------------
(* C1 (as stated): after a successful run the file `../src-gen/n.ts`       *)
(* holds header, import, blank line and the declaration                    *)
(* `export async function n(P) { return await invoke('n', { A }); }`.      *)
C1Original ==
    \A p \in Fns : pc[p] = "passed" =>
        FileOf(<<".", ".", "/", "s", "r", "c", "-", "g", "e", "n", "/">> \o funcs[p].name \o <<".", "t", "s">>)
            = IF funcs[p] = Greet THEN GreetTextSemicolon
              ELSE Filled(funcs[p].name, DeclaredParams(p), DeclaredNames(p),
                          <<" ", "}", ")", ";", " ", "}">>)

(* C1 (amended): after a successful run with an empty directory argument   *)
(* the file `../src-gen/n.ts` holds header, import, blank line and         *)
(* `export async function n(P') { return await invoke('n', { A }) }`, with *)
(* no semicolon after the invoke call, P' being the parameter list as      *)
(* emitted (P with every `%1` replaced by A); for greet(name: String) that *)
(* is `export async function greet(name: string) { return await           *)
(* invoke('greet', { name }) }`.                                           *)
C1Theorem ==
    \A p \in Fns : (pc[p] = "passed" /\ funcs[p].attr = <<>>) =>
        LET text == FileOf(<<".", ".", "/", "s", "r", "c", "-", "g", "e", "n", "/">> \o funcs[p].name \o <<".", "t", "s">>)
        IN  /\ text = Filled(funcs[p].name,
                             replace(DeclaredParams(p), <<"%", "1">>, DeclaredNames(p)),
                             DeclaredNames(p), <<" ", "}", ")", " ", "}">>)
            /\ funcs[p] = Greet => text = GreetText

C1Witness ==
    \E p \in Fns :
        /\ pc[p] = "passed"
        /\ funcs[p] = Greet
        /\ <<".", ".", "/", "s", "r", "c", "-", "g", "e", "n",
             "/", "g", "r", "e", "e", "t", ".", "t", "s">> \in DOMAIN files

(* C2: after a successful run the emitted parameter list is                *)
(* `p1: T1, ..., pk: Tk` and the argument object lists `p1, ..., pk`, in   *)
(* declaration order, Ti being the TypeScript name of the i-th type.       *)
C2Claim ==
    \A p \in Fns : pc[p] = "passed" =>
        FileOf(test[p].file_name)
            = Filled(funcs[p].name, DeclaredParams(p), DeclaredNames(p), <<" ", "}", ")", " ",
                                                                           "}">>)

(* C3: a function without parameters is still emitted: its pipeline never  *)
(* aborts, and a successful run writes `n()` with an argument object that  *)
(* holds white space only.                                                 *)
C3Claim ==
    \A p \in Fns : (funcs[p].item = "fn" /\ Len(funcs[p].inputs) = 0) =>
        /\ pc[p] # "aborted"
        /\ pc[p] = "passed" =>
              FileOf(test[p].file_name) = Filled(funcs[p].name, <<>>, <<>>, <<" ", "}", ")", " ",
                                                                              "}">>)

(* C4: the directory the macro resolves is the attribute argument without  *)
(* its leading and trailing quote characters, or `../src-gen` when nothing *)
(* remains, and resolving never fails; `"./custom"`, `'./custom'` and      *)
(* `./custom` resolve to `./custom`.                                       *)
LeadingQuotes(a) ==
    CHOOSE n \in 0..Len(a) :
        /\ \A k \in 1..n : IsQuote(a[k])
        /\ n = Len(a) \/ ~IsQuote(a[n + 1])

TrailingQuotes(a) ==
    CHOOSE n \in 0..Len(a) :
        /\ \A k \in (Len(a) - n + 1)..Len(a) : IsQuote(a[k])
        /\ n = Len(a) \/ ~IsQuote(a[Len(a) - n])

C4Theorem ==
    \A p \in Fns : pc[p] # "source" =>
        LET a == funcs[p].attr
            rest == SubSeq(a, LeadingQuotes(a) + 1, Len(a) - TrailingQuotes(a))
        IN  /\ pc[p] # "aborted"
            /\ test[p].dir = IF rest = <<>> THEN <<".", ".", "/", "s", "r",
                                                   "c", "-", "g", "e", "n">> ELSE rest
            /\ a \in {<<"\"", ".", "/", "c", "u", "s", "t", "o", "m", "\"">>, <<"'", ".", "/", "c",
                                                                                "u", "s", "t", "o",
                                                                                "m", "'">>, <<".", "/", "c", "u",
                                                                                              "s", "t", "o", "m">>}
                  => test[p].dir = <<".", "/", "c", "u", "s", "t", "o", "m">>
            /\ a \in {<<>>, <<"\"", "\"">>, <<"'", "\"", "'">>} => test[p].dir = <<".", ".", "/", "s",
                                                                                   "r", "c", "-", "g",
                                                                                   "e", "n">>

C4Witness ==
    \E p \in Fns :
        /\ pc[p] = "passed"
        /\ funcs[p].attr = <<"'", ".", "/", "c", "u", "s", "t", "o", "m", "'">>
        /\ <<".", "/", "c", "u", "s", "t", "o", "m", "/", "g",
             "r", "e", "e", "t", ".", "t", "s">> \in DOMAIN files

(* C5: whenever a run has passed, the file holds exactly the content a     *)
(* single run on a fresh directory produces, also when the run is a        *)
(* repetition and the file was edited by hand in between.                  *)
C5Theorem ==
    \A p \in Fns : pc[p] = "passed" => FileOf(NamedFile(p)) = AloneText(p)

C5Witness ==
    \E p \in Fns : pc[p] = "passed" /\ edited[p] /\ FileOf(NamedFile(p)) = AloneText(p)

(* C6: a function with a receiver, a non-identifier pattern, a non-path    *)
(* type or a type without TypeScript name never gets past compilation,     *)
(* aborts with a message, and neither a directory nor a file is created    *)
(* for it.                                                                 *)
C6Theorem ==
    \A p \in Fns : Unsupported(funcs[p]) =>
        /\ pc[p] \in {"source", "expanded", "aborted"}
        /\ pc[p] = "aborted" => err[p] # ""
        /\ dirs = {}
        /\ DOMAIN files = {}

C6Witness ==
    \E p \in Fns :
        /\ pc[p] = "aborted"
        /\ Len(funcs[p].inputs) = 2
        /\ funcs[p].inputs[1].ty.kind = "Reference"
        /\ funcs[p].inputs[2] = FnArgTyped(PatIdent(<<"b">>), TypePath("String"))

(* C7: when the tests of two functions with distinct names run             *)
(* concurrently, no run fails unless the environment makes one of its      *)
(* filesystem calls fail, and once both have passed the two files exist    *)
(* side by side, each with the content of its own run alone.               *)
C7Theorem ==
    /\ \A p \in Fns : pc[p] = "failed" => injected[p]
    /\ (\A p \in Fns : pc[p] = "passed") =>
          /\ \A p \in Fns : FileOf(NamedFile(p)) = AloneText(p)
          /\ \A p, q \in Fns : p # q => NamedFile(p) # NamedFile(q)

C7Witness ==
    /\ overlapped
    /\ \A p \in Fns : pc[p] = "passed" /\ ~edited[p] /\ NamedDir(p) = <<".", ".", "/", "s",
                                                                        "r", "c", "-", "g",
                                                                        "e", "n">>
    /\ FileOf(<<".", ".", "/", "s", "r", "c", "-", "g", "e", "n",
                "/", "g", "r", "e", "e", "t", ".", "t", "s">>) = GreetText
    /\ FileOf(<<".", ".", "/", "s", "r", "c", "-", "g", "e", "n",
                "/", "a", "d", "d", ".", "t", "s">>) = AddText

(* C8: the write stage is entered only from a successful directory         *)
(* creation, with the directory in place; a failed filesystem call ends    *)
(* the run as failed, a failed directory creation without touching any     *)
(* file; and a run passes only by the step that completes the content.     *)
C8Theorem ==
    [][\A p \in Fns :
          /\ (pc[p] # "write" /\ pc'[p] = "write") =>
                pc[p] = "mkdir" /\ ~injected'[p] /\ test[p].dir \in dirs'
          /\ (pc[p] = "mkdir" /\ pc'[p] = "failed") =>
                files' = files /\ err'[p] = "Could not create directory"
          /\ (pc[p] \in InFlight /\ pc'[p] # pc[p] /\ injected'[p]) =>
                pc'[p] = "failed"
          /\ (pc[p] # "passed" /\ pc'[p] = "passed") =>
                /\ pc[p] = "writing"
                /\ ~injected'[p]
                /\ FileOf(NamedFile(p))' = AloneText(p)]_vars

C8Witness ==
    \E p \in Fns :
        /\ pc[p] = "failed"
        /\ err[p] = "Could not create directory"
        /\ NamedFile(p) \notin DOMAIN files
        /\ NamedDir(p) \notin dirs

C10Claim ==
    \A p \in Fns : pc[p] \in InFlight =>
        test_output(test[p], args[p])
            = Filled(funcs[p].name, args[p], join(test[p].arg_names, <<",", " ">>), <<" ", "}", ")", " ",
                                                                                      "}">>)

====
